---- MODULE Spec2Model ----
(***************************************************************************)
(* The Humor Project gallery page (Week1/hello-world).                     *)
(*                                                                         *)
(* Two variants of the Home component are modelled:                        *)
(*   - the vote variant (the component listed in SETUP_README.md): four    *)
(*     queries in fetchData, handleVote with upvote/downvote counters;     *)
(*   - the like variant (app/page.tsx): two queries in fetchData and a     *)
(*     local likedCaptions set driven by toggleLike.                       *)
(* Each browser tab is one mounted Home component with its own React       *)
(* state; the tabs share the backend tables.  An async handler is split    *)
(* at its awaits: the values its closure captured when it was invoked      *)
(* travel with the call.                                                   *)
(***************************************************************************)
EXTENDS Integers, Sequences, FiniteSets, TLC

\* ------------------------------------------------------------ bounds
MaxImages == 2
MaxCaptions == 3
MaxCalls == 2
MaxPending == 2

\* ------------------------------------------------------------ constants
ImageLimit == 20
PreviewCount == 2
DocPreviewCount == 3

Null == "null"
Me == "u1"
Other == "u2"
Profiles == {Me, Other}
Tabs == {"tabA", "tabB"}
OneTab == {"tabA"}
Vals == {1, -1}
ErrMsg == "An error occurred"
LoginRoute == "/login"

ImageIds == 1..MaxImages
OrphanImage == MaxImages + 1
CaptionIds == 1..MaxCaptions
Rows == CaptionIds \X Profiles \X Vals

Min(a, b) == IF a < b THEN a ELSE b

\* ------------------------------------------------------------ Map<string, number>
EmptyMap == [k \in {} |-> 0]
MapSet(m, k, v) == [x \in DOMAIN m \cup {k} |-> IF x = k THEN v ELSE m[x]]
MapDelete(m, k) == [x \in DOMAIN m \ {k} |-> m[x]]
PartialMaps(K, V) == UNION {[D -> V] : D \in SUBSET K}

\* voteCounts.get(captionId) || 0
getVoteCount(counts, c) == IF c \in DOMAIN counts THEN counts[c] ELSE 0

\* ------------------------------------------------------------ state
VARIABLES
  images,              \* backend table images: sequence of image ids
  captions,            \* backend table captions: sequence of [id, image_id]
  caption_votes,       \* backend table caption_votes: number of rows per <<caption_id, profile_id, vote_value>>
  user,                \* useState user, per tab
  loading,             \* useState loading
  error,               \* useState error
  imagesWithCaptions,  \* useState imagesWithCaptions
  selectedImage,       \* useState selectedImage: <<>> (null) or <<image>>
  likedCaptions,       \* useState likedCaptions (like variant)
  userVotes,           \* useState userVotes (vote variant)
  voteCounts,          \* useState voteCounts (vote variant)
  route,               \* the router's current path
  alert,               \* the blocking alert() dialog on screen, "none" when there is none
  authPc,              \* checkAuth: "pending" until getUser() resolves
  fetchPc,             \* fetchData: the query it is about to issue, "done" after finally
  fetched,             \* fetchData's locals images and captions
  calls,               \* handleVote invocations suspended at their await
  ncalls,              \* handleVote invocations made so far
  likeQueue,           \* the toggleLike updaters React holds until the next render (like variant)
  selects,             \* history: how often each select query was issued
  queryFailed,         \* history: the select queries that returned an error
  toggle,              \* history: progress of a same-value double vote on an unvoted caption
  hist,                \* history: the maps when the current burst of calls began, and its completed calls
  mutations,           \* history: how many delete/update/insert requests were sent to caption_votes
  likeBatch            \* history: the last batch of several updaters that one render applied

backendVars == <<images, captions, caption_votes>>
reactVars == <<user, loading, error, imagesWithCaptions, selectedImage, likedCaptions,
               userVotes, voteCounts>>
envVars == <<route, alert>>
pcVars == <<authPc, fetchPc, fetched, calls, ncalls, likeQueue>>
histVars == <<selects, queryFailed, toggle, hist, mutations, likeBatch>>
vars == <<backendVars, reactVars, envVars, pcVars, histVars>>

QueryNames == {"images", "captions", "allVotes", "userVotes"}

\* ------------------------------------------------------------ backend queries
\* supabase.from('images').select('*').limit(20)
SelectImages(tbl) == SubSeq(tbl, 1, Min(Len(tbl), ImageLimit))

RECURSIVE SumRows(_, _)
SumRows(tbl, rows) ==
  IF rows = {} THEN 0
  ELSE LET r == CHOOSE x \in rows : TRUE
       IN  r[3] * tbl[r] + SumRows(tbl, rows \ {r})

RowsOfCaption(c) == {r \in Rows : r[1] = c}
RowsOfPair(c, p) == {r \in Rows : r[1] = c /\ r[2] = p}
RowCount(tbl, c, p) == tbl[<<c, p, 1>>] + tbl[<<c, p, -1>>]

\* mutant: every row counts as one, whatever its vote_value
CountVotesRows(tbl) ==
  [c \in {c \in CaptionIds : \E r \in RowsOfCaption(c) : tbl[r] > 0} |->
     RowCount(tbl, c, Me) + RowCount(tbl, c, Other)]

\* counts: for every fetched row, counts[caption_id] = (counts[caption_id] || 0) + vote_value
CountVotes(tbl) ==
  [c \in {c \in CaptionIds : \E r \in RowsOfCaption(c) : tbl[r] > 0} |->
     SumRows(tbl, RowsOfCaption(c))]

\* votesMap: for every fetched row of the user, votesMap[caption_id] = vote_value.
\* A later row overwrites an earlier one and the query states no order, so
\* with several rows for one caption any of their values may be the one kept.
VotesMaps(tbl, uid) ==
  LET voted == {c \in CaptionIds : RowCount(tbl, c, uid) > 0}
  IN  {m \in [voted -> Vals] : \A c \in voted : tbl[<<c, uid, m[c]>>] > 0}

\* .delete() / .update({vote_value}) / .insert({...}) on caption_votes, filtered
\* by .eq('caption_id', c).eq('profile_id', p)
ApplyMutation(tbl, kind, c, p, v) ==
  CASE kind = "delete" ->
         [r \in Rows |-> IF r \in RowsOfPair(c, p) THEN 0 ELSE tbl[r]]
    [] kind = "update" ->
         [r \in Rows |-> IF r = <<c, p, v>> THEN RowCount(tbl, c, p)
                         ELSE IF r = <<c, p, -v>> THEN 0 ELSE tbl[r]]
    [] kind = "insert" ->
         [r \in Rows |-> IF r = <<c, p, v>> THEN tbl[r] + 1 ELSE tbl[r]]

\* ------------------------------------------------------------ fetchData helpers
\* (images || []).map(image => ({...image, captions: (captions || []).filter(...)}))
Combine(imgs, caps) ==
  [i \in 1..Len(imgs) |->
     [id |-> imgs[i],
      captions |-> SelectSeq(caps, LAMBDA cp : cp.image_id = imgs[i])]]

\* mutant: the comparator reversed (a.captions.length - b.captions.length)
InsertByCountAscending(x, sorted) ==
  LET k == Cardinality({i \in 1..Len(sorted) :
                          Len(sorted[i].captions) <= Len(x.captions)})
  IN  SubSeq(sorted, 1, k) \o <<x>> \o SubSeq(sorted, k + 1, Len(sorted))

\* combined.sort((a, b) => b.captions.length - a.captions.length): a stable sort
InsertByCount(x, sorted) ==
  LET k == Cardinality({i \in 1..Len(sorted) :
                          Len(sorted[i].captions) >= Len(x.captions)})
  IN  SubSeq(sorted, 1, k) \o <<x>> \o SubSeq(sorted, k + 1, Len(sorted))

RECURSIVE SortPrefix(_, _)
SortPrefix(s, n) == IF n = 0 THEN <<>> ELSE InsertByCount(s[n], SortPrefix(s, n - 1))

SortByCaptionCount(s) == SortPrefix(s, Len(s))

\* ------------------------------------------------------------ render
\* if (!user || loading) ... ; if (error) ... ; else the gallery
View(t) ==
  IF user[t] = Null \/ loading[t] THEN "loading"
  ELSE IF error[t] # Null THEN "error"
  ELSE "gallery"

\* image.captions.slice(0, 2)
Preview(caps) == SubSeq(caps, 1, Min(Len(caps), PreviewCount))

SeqIds(caps) == {caps[i].id : i \in 1..Len(caps)}

\* the captions that carry a vote or like button on screen: the previews of
\* every card and, with the modal open, all captions of the selected image
RenderedCaptions(t) ==
  IF View(t) # "gallery" THEN {}
  ELSE UNION {SeqIds(Preview(imagesWithCaptions[t][i].captions)) :
                i \in 1..Len(imagesWithCaptions[t])}
       \cup UNION {SeqIds(selectedImage[t][i].captions) : i \in 1..Len(selectedImage[t])}

\* ------------------------------------------------------------ handleVote helpers
\* mutant: a repeated vote is treated as a change of vote
BranchNoRemove(votes, c, v) ==
  IF c \in DOMAIN votes THEN "update" ELSE "insert"

\* currentVote === voteValue -> remove; currentVote !== undefined -> change; else first vote
Branch(votes, c, v) ==
  IF c \in DOMAIN votes /\ votes[c] = v THEN "delete"
  ELSE IF c \in DOMAIN votes THEN "update"
  ELSE "insert"

\* newVotes = new Map(userVotes); newVotes.delete(c) / newVotes.set(c, v)
NewVotes(kind, votes, c, v) ==
  IF kind = "delete" THEN MapDelete(votes, c) ELSE MapSet(votes, c, v)

\* mutant: removing a vote adds its value to the count
NewCountsRemoveAdds(kind, votes, counts, c, v) ==
  CASE kind = "delete" -> MapSet(counts, c, getVoteCount(counts, c) + v)
    [] kind = "update" -> MapSet(counts, c, getVoteCount(counts, c) - votes[c] + v)
    [] kind = "insert" -> MapSet(counts, c, getVoteCount(counts, c) + v)

\* newCounts = new Map(voteCounts); newCounts.set(c, currentCount -/+ ...)
NewCounts(kind, votes, counts, c, v) ==
  CASE kind = "delete" -> MapSet(counts, c, getVoteCount(counts, c) - v)
    [] kind = "update" -> MapSet(counts, c, getVoteCount(counts, c) - votes[c] + v)
    [] kind = "insert" -> MapSet(counts, c, getVoteCount(counts, c) + v)

\* the alert shown for a failed request
FailureAlert(kind, how) ==
  IF how = "throw" THEN "unexpected"
  ELSE CASE kind = "delete" -> "remove"
         [] kind = "update" -> "update"
         [] kind = "insert" -> "insert"

RemoveAt(s, i) == SubSeq(s, 1, i - 1) \o SubSeq(s, i + 1, Len(s))

\* ------------------------------------------------------------ history helpers
ToggleIdle == [stage |-> "idle", cap |-> 0, val |-> 0, count |-> 0]

ToggleOnStart(t, c, v) ==
  IF calls[t] = <<>> /\ c \notin DOMAIN userVotes[t]
  THEN [stage |-> "first", cap |-> c, val |-> v, count |-> getVoteCount(voteCounts[t], c)]
  ELSE IF /\ calls[t] = <<>>
          /\ toggle[t].stage = "between"
          /\ toggle[t].cap = c
          /\ toggle[t].val = v
  THEN [toggle[t] EXCEPT !.stage = "second"]
  ELSE ToggleIdle

ToggleOnComplete(t, ok) ==
  IF ok /\ toggle[t].stage = "first" THEN [toggle[t] EXCEPT !.stage = "between"]
  ELSE IF ok /\ toggle[t].stage = "second" THEN [toggle[t] EXCEPT !.stage = "done"]
  ELSE ToggleIdle

HistOnStart(t) ==
  IF calls[t] = <<>>
  THEN [votes |-> userVotes[t], counts |-> voteCounts[t], done |-> <<>>]
  ELSE hist[t]

HistOnComplete(t, call) ==
  [hist[t] EXCEPT !.done = Append(@, [cap |-> call.cap, val |-> call.val,
                                      ok |-> call.resp = "ok"])]

\* ------------------------------------------------------------ initial states
DistinctSeqs(S, n) ==
  {s \in UNION {[1..k -> S] : k \in 0..n} : \A i, j \in 1..Len(s) : s[i] = s[j] => i = j}

\* captions are numbered in table order; each names an image, possibly one
\* the images query does not return
CaptionTables ==
  UNION {{[i \in 1..k |-> [id |-> i, image_id |-> f[i]]] :
            f \in [1..k -> ImageIds \cup {OrphanImage}]} : k \in 0..MaxCaptions}

NoVotes == [r \in Rows |-> 0]

\* a caption_votes table with at most one row per (profile_id, caption_id)
TableOf(mine, others) ==
  [r \in Rows |->
     IF r[2] = Me /\ r[1] \in DOMAIN mine /\ mine[r[1]] = r[3] THEN 1
     ELSE IF r[2] = Other /\ r[1] \in DOMAIN others /\ others[r[1]] = r[3] THEN 1
     ELSE 0]

VoteImages == <<1, 2>>
VoteCaptions == <<[id |-> 1, image_id |-> 1], [id |-> 2, image_id |-> 2]>>
InitTables == {TableOf(mine, MapSet(EmptyMap, 1, 1)) : mine \in PartialMaps({1}, Vals)}

TabsInit ==
  /\ user = [t \in Tabs |-> Null]
  /\ loading = [t \in Tabs |-> TRUE]
  /\ error = [t \in Tabs |-> Null]
  /\ imagesWithCaptions = [t \in Tabs |-> <<>>]
  /\ selectedImage = [t \in Tabs |-> <<>>]
  /\ likedCaptions = [t \in Tabs |-> {}]
  /\ userVotes = [t \in Tabs |-> EmptyMap]
  /\ voteCounts = [t \in Tabs |-> EmptyMap]
  /\ route = [t \in Tabs |-> "/"]
  /\ alert = [t \in Tabs |-> "none"]
  /\ authPc = [t \in Tabs |-> "pending"]
  /\ fetchPc = [t \in Tabs |-> "images"]
  /\ fetched = [t \in Tabs |-> [images |-> <<>>, captions |-> <<>>]]
  /\ calls = [t \in Tabs |-> <<>>]
  /\ ncalls = [t \in Tabs |-> 0]
  /\ likeQueue = [t \in Tabs |-> <<>>]
  /\ selects = [t \in Tabs |-> [q \in QueryNames |-> 0]]
  /\ queryFailed = [t \in Tabs |-> {}]
  /\ toggle = [t \in Tabs |-> ToggleIdle]
  /\ hist = [t \in Tabs |-> [votes |-> EmptyMap, counts |-> EmptyMap, done |-> <<>>]]
  /\ mutations = [t \in Tabs |-> 0]
  /\ likeBatch = [t \in Tabs |-> <<>>]

\* the vote variant over a small gallery
Init ==
  /\ images = VoteImages
  /\ captions = VoteCaptions
  /\ caption_votes \in InitTables
  /\ TabsInit

\* the vote variant, the user not having voted yet
InitTabs ==
  /\ images = VoteImages
  /\ captions = VoteCaptions
  /\ caption_votes = TableOf(EmptyMap, MapSet(EmptyMap, 1, 1))
  /\ TabsInit

\* the like variant over one gallery: image 1 with three captions, image 2 with none
LikeCaptions == [i \in 1..3 |-> [id |-> i, image_id |-> 1]]

InitQuick ==
  /\ images = VoteImages
  /\ captions = LikeCaptions
  /\ caption_votes = NoVotes
  /\ TabsInit

\* the like variant over every small gallery
InitLike ==
  /\ images \in DistinctSeqs(ImageIds, MaxImages)
  /\ captions \in CaptionTables
  /\ caption_votes = NoVotes
  /\ TabsInit

\* ------------------------------------------------------------ checkAuth
\* mutant: no redirect
CheckAuthNoPush(t, u) ==
  /\ authPc[t] = "pending"
  /\ authPc' = [authPc EXCEPT ![t] = "done"]
  /\ user' = [user EXCEPT ![t] = u]
  /\ UNCHANGED <<backendVars, loading, error, imagesWithCaptions, selectedImage,
                 likedCaptions, userVotes, voteCounts, envVars, fetchPc, fetched,
                 calls, ncalls, likeQueue, histVars>>

\* const { data: { user } } = await supabase.auth.getUser(); setUser(user);
\* if (!user) router.push('/login')
CheckAuth(t, u) ==
  /\ authPc[t] = "pending"
  /\ authPc' = [authPc EXCEPT ![t] = "done"]
  /\ user' = [user EXCEPT ![t] = u]
  /\ route' = [route EXCEPT ![t] = IF u = Null THEN LoginRoute ELSE @]
  /\ UNCHANGED <<backendVars, loading, error, imagesWithCaptions, selectedImage,
                 likedCaptions, userVotes, voteCounts, alert, fetchPc, fetched,
                 calls, ncalls, likeQueue, histVars>>

\* ------------------------------------------------------------ fetchData
\* mutant: the effect does not look at user
FetchGuardNoUser(t, q) == fetchPc[t] = q

\* the effect returns at once while user is null
FetchGuard(t, q) == user[t] # Null /\ fetchPc[t] = q

Issued(t, q, ok) ==
  /\ selects' = [selects EXCEPT ![t][q] = @ + 1]
  /\ queryFailed' = [queryFailed EXCEPT ![t] = IF ok THEN @ ELSE @ \cup {q}]

\* mutant: the catch block only logs
FetchThrowNoError(t) ==
  /\ error' = error
  /\ loading' = [loading EXCEPT ![t] = FALSE]
  /\ fetchPc' = [fetchPc EXCEPT ![t] = "done"]

\* mutant: no finally block
FetchThrowNoFinally(t) ==
  /\ error' = [error EXCEPT ![t] = ErrMsg]
  /\ loading' = loading
  /\ fetchPc' = [fetchPc EXCEPT ![t] = "done"]

\* catch (err) { setError(...) } finally { setLoading(false) }
FetchThrow(t) ==
  /\ error' = [error EXCEPT ![t] = ErrMsg]
  /\ loading' = [loading EXCEPT ![t] = FALSE]
  /\ fetchPc' = [fetchPc EXCEPT ![t] = "done"]

FetchImages(t, ok) ==
  /\ FetchGuard(t, "images")
  /\ Issued(t, "images", ok)
  /\ IF ok
     THEN /\ fetched' = [fetched EXCEPT ![t].images = SelectImages(images)]
          /\ fetchPc' = [fetchPc EXCEPT ![t] = "captions"]
          /\ UNCHANGED <<error, loading>>
     ELSE /\ FetchThrow(t)
          /\ UNCHANGED fetched
  /\ UNCHANGED <<backendVars, user, imagesWithCaptions, selectedImage, likedCaptions,
                 userVotes, voteCounts, envVars, authPc, calls, ncalls, likeQueue, toggle, hist,
                 mutations, likeBatch>>

\* like variant: the captions query is the last one; combine, sort, publish
FetchCaptionsLike(t, ok) ==
  /\ FetchGuard(t, "captions")
  /\ Issued(t, "captions", ok)
  /\ IF ok
     THEN /\ imagesWithCaptions' =
               [imagesWithCaptions EXCEPT
                  ![t] = SortByCaptionCount(Combine(fetched[t].images, captions))]
          /\ loading' = [loading EXCEPT ![t] = FALSE]
          /\ fetchPc' = [fetchPc EXCEPT ![t] = "done"]
          /\ UNCHANGED error
     ELSE /\ FetchThrow(t)
          /\ UNCHANGED imagesWithCaptions
  /\ UNCHANGED <<backendVars, user, selectedImage, likedCaptions, userVotes, voteCounts,
                 envVars, authPc, fetched, calls, ncalls, likeQueue, toggle, hist, mutations,
                 likeBatch>>

\* vote variant: the captions query is followed by the two votes queries
FetchCaptionsVote(t, ok) ==
  /\ FetchGuard(t, "captions")
  /\ Issued(t, "captions", ok)
  /\ IF ok
     THEN /\ fetched' = [fetched EXCEPT ![t].captions = captions]
          /\ fetchPc' = [fetchPc EXCEPT ![t] = "allVotes"]
          /\ UNCHANGED <<error, loading>>
     ELSE /\ FetchThrow(t)
          /\ UNCHANGED fetched
  /\ UNCHANGED <<backendVars, user, imagesWithCaptions, selectedImage, likedCaptions,
                 userVotes, voteCounts, envVars, authPc, calls, ncalls, likeQueue, toggle, hist,
                 mutations, likeBatch>>

\* mutant: a failed all-votes query is thrown like a failed images query
FetchAllVotesThrows(t, ok) ==
  /\ FetchGuard(t, "allVotes")
  /\ Issued(t, "allVotes", ok)
  /\ IF ok
     THEN /\ voteCounts' = [voteCounts EXCEPT ![t] = CountVotes(caption_votes)]
          /\ fetchPc' = [fetchPc EXCEPT ![t] = "userVotes"]
          /\ UNCHANGED <<error, loading>>
     ELSE /\ FetchThrow(t)
          /\ UNCHANGED voteCounts
  /\ UNCHANGED <<backendVars, user, imagesWithCaptions, selectedImage, likedCaptions,
                 userVotes, envVars, authPc, fetched, calls, ncalls, likeQueue, toggle,
                 hist, mutations, likeBatch>>

\* if (allVotesError) console.error(...); counts from allVotes if any; setVoteCounts(counts)
FetchAllVotes(t, ok) ==
  /\ FetchGuard(t, "allVotes")
  /\ Issued(t, "allVotes", ok)
  /\ voteCounts' = [voteCounts EXCEPT
                      ![t] = IF ok THEN CountVotes(caption_votes) ELSE EmptyMap]
  /\ fetchPc' = [fetchPc EXCEPT ![t] = "userVotes"]
  /\ UNCHANGED <<backendVars, user, loading, error, imagesWithCaptions, selectedImage,
                 likedCaptions, userVotes, envVars, authPc, fetched, calls, ncalls,
                 likeQueue, toggle, hist, mutations, likeBatch>>

\* if (votesError) console.error(...); votesMap from votes if any; setUserVotes(votesMap);
\* combine, sort, setImagesWithCaptions; finally setLoading(false)
FetchUserVotes(t, ok) ==
  /\ FetchGuard(t, "userVotes")
  /\ Issued(t, "userVotes", ok)
  /\ \E m \in (IF ok THEN VotesMaps(caption_votes, user[t]) ELSE {EmptyMap}) :
       userVotes' = [userVotes EXCEPT ![t] = m]
  /\ imagesWithCaptions' =
       [imagesWithCaptions EXCEPT
          ![t] = SortByCaptionCount(Combine(fetched[t].images, fetched[t].captions))]
  /\ loading' = [loading EXCEPT ![t] = FALSE]
  /\ fetchPc' = [fetchPc EXCEPT ![t] = "done"]
  /\ UNCHANGED <<backendVars, user, error, selectedImage, likedCaptions, voteCounts,
                 envVars, authPc, fetched, calls, ncalls, likeQueue, toggle, hist, mutations,
                 likeBatch>>

\* ------------------------------------------------------------ handleVote
\* mutant: the login check inverted
LoggedIn(t) == user[t] # Null

\* if (!user)
LoggedOut(t) == user[t] = Null

\* up to the await: the login check, the branch on the cached vote, the request
HandleVote(t, c, v) ==
  /\ alert[t] = "none"
  /\ c \in RenderedCaptions(t)
  /\ ncalls[t] < MaxCalls
  /\ ncalls' = [ncalls EXCEPT ![t] = @ + 1]
  /\ IF LoggedOut(t)
     THEN /\ alert' = [alert EXCEPT ![t] = "login"]
          /\ UNCHANGED <<calls, toggle, hist, mutations>>
     ELSE /\ calls' = [calls EXCEPT ![t] =
                         Append(@, [cap |-> c, val |-> v, profile |-> user[t],
                                    kind |-> Branch(userVotes[t], c, v),
                                    votes |-> userVotes[t], counts |-> voteCounts[t],
                                    resp |-> "pending"])]
          /\ toggle' = [toggle EXCEPT ![t] = ToggleOnStart(t, c, v)]
          /\ hist' = [hist EXCEPT ![t] = HistOnStart(t)]
          /\ mutations' = [mutations EXCEPT ![t] = @ + 1]
          /\ UNCHANGED alert
  /\ UNCHANGED <<backendVars, reactVars, route, authPc, fetchPc, fetched, likeQueue,
                 selects, queryFailed, likeBatch>>

\* the backend applies a pending request and answers it without error
Backend(t, i) ==
  /\ i \in 1..Len(calls[t])
  /\ calls[t][i].resp = "pending"
  /\ calls' = [calls EXCEPT ![t][i].resp = "ok"]
  /\ caption_votes' = ApplyMutation(caption_votes, calls[t][i].kind, calls[t][i].cap,
                                    calls[t][i].profile, calls[t][i].val)
  /\ UNCHANGED <<images, captions, reactVars, envVars, authPc, fetchPc, fetched, ncalls,
                 likeQueue, histVars>>

\* after the await, no error: the two map updates, both computed from the
\* maps the handler's closure holds
Complete(t, i) ==
  /\ alert[t] = "none"
  /\ i \in 1..Len(calls[t])
  /\ calls[t][i].resp = "ok"
  /\ LET call == calls[t][i]
     IN  /\ calls' = [calls EXCEPT ![t] = RemoveAt(@, i)]
         /\ toggle' = [toggle EXCEPT ![t] = ToggleOnComplete(t, TRUE)]
         /\ hist' = [hist EXCEPT ![t] = HistOnComplete(t, call)]
         /\ userVotes' = [userVotes EXCEPT
                            ![t] = NewVotes(call.kind, call.votes, call.cap, call.val)]
         /\ voteCounts' = [voteCounts EXCEPT
                             ![t] = NewCounts(call.kind, call.votes, call.counts,
                                              call.cap, call.val)]
  /\ UNCHANGED <<backendVars, user, loading, error, imagesWithCaptions, selectedImage,
                 likedCaptions, envVars, authPc, fetchPc, fetched, ncalls, likeQueue,
                 selects, queryFailed, mutations, likeBatch>>

\* mutant: the maps are updated before the error is looked at
FailAfterUpdate(t, i, how) ==
  /\ alert[t] = "none"
  /\ i \in 1..Len(calls[t])
  /\ calls[t][i].resp = "pending"
  /\ LET call == calls[t][i]
     IN  /\ calls' = [calls EXCEPT ![t] = RemoveAt(@, i)]
         /\ toggle' = [toggle EXCEPT ![t] = ToggleOnComplete(t, FALSE)]
         /\ hist' = [hist EXCEPT ![t] = HistOnComplete(t, [call EXCEPT !.resp = how])]
         /\ alert' = [alert EXCEPT ![t] = FailureAlert(call.kind, how)]
         /\ userVotes' = [userVotes EXCEPT
                            ![t] = NewVotes(call.kind, call.votes, call.cap, call.val)]
         /\ voteCounts' = [voteCounts EXCEPT
                             ![t] = NewCounts(call.kind, call.votes, call.counts,
                                              call.cap, call.val)]
  /\ UNCHANGED <<backendVars, user, loading, error, imagesWithCaptions, selectedImage,
                 likedCaptions, route, authPc, fetchPc, fetched, ncalls, likeQueue,
                 selects, queryFailed, mutations, likeBatch>>

\* mutant: a failed request is sent again
FailRetry(t, i, how) ==
  /\ alert[t] = "none"
  /\ i \in 1..Len(calls[t])
  /\ calls[t][i].resp = "pending"
  /\ mutations' = [mutations EXCEPT ![t] = @ + 1]
  /\ UNCHANGED <<backendVars, reactVars, envVars, pcVars, selects, queryFailed, toggle,
                 hist, likeBatch>>

\* after the await, the request failed: the backend changed nothing and
\* returned an error ("error"), or the call threw ("throw"); alert and return
Fail(t, i, how) ==
  /\ alert[t] = "none"
  /\ i \in 1..Len(calls[t])
  /\ calls[t][i].resp = "pending"
  /\ LET call == calls[t][i]
     IN  /\ calls' = [calls EXCEPT ![t] = RemoveAt(@, i)]
         /\ toggle' = [toggle EXCEPT ![t] = ToggleOnComplete(t, FALSE)]
         /\ hist' = [hist EXCEPT ![t] = HistOnComplete(t, [call EXCEPT !.resp = how])]
         /\ alert' = [alert EXCEPT ![t] = FailureAlert(call.kind, how)]
  /\ UNCHANGED <<backendVars, reactVars, route, authPc, fetchPc, fetched, ncalls,
                 likeQueue, selects, queryFailed, mutations, likeBatch>>

\* the user closes the alert dialog
DismissAlert(t) ==
  /\ alert[t] # "none"
  /\ alert' = [alert EXCEPT ![t] = "none"]
  /\ UNCHANGED <<backendVars, reactVars, route, pcVars, histVars>>

\* ------------------------------------------------------------ like variant handlers
\* prev => { newSet = new Set(prev); has ? delete : add; return newSet }
Flip(prev, c) == IF c \in prev THEN prev \ {c} ELSE prev \cup {c}

\* mutant: every updater starts from the rendered set (new Set(likedCaptions)
\* in place of the functional form), so the last one queued wins
ApplyUpdatersStale(prev, queue) ==
  IF queue = <<>> THEN prev ELSE Flip(prev, queue[Len(queue)])

\* React runs the queued updaters in order, each on the result of the one before
RECURSIVE ApplyUpdaters(_, _)
ApplyUpdaters(prev, queue) ==
  IF queue = <<>> THEN prev
  ELSE Flip(ApplyUpdaters(prev, SubSeq(queue, 1, Len(queue) - 1)), queue[Len(queue)])

\* toggleLike(captionId): setLikedCaptions(prev => ...) queues the updater;
\* nothing is sent to the backend
ToggleLike(t, c) ==
  /\ c \in RenderedCaptions(t)
  /\ Len(likeQueue[t]) < MaxPending
  /\ likeQueue' = [likeQueue EXCEPT ![t] = Append(@, c)]
  /\ UNCHANGED <<backendVars, reactVars, envVars, authPc, fetchPc, fetched, calls, ncalls,
                 histVars>>

\* the re-render after one or more setLikedCaptions calls
Render(t) ==
  /\ likeQueue[t] # <<>>
  /\ likedCaptions' = [likedCaptions EXCEPT ![t] = ApplyUpdaters(@, likeQueue[t])]
  /\ likeQueue' = [likeQueue EXCEPT ![t] = <<>>]
  /\ likeBatch' = [likeBatch EXCEPT ![t] = IF Len(likeQueue[t]) > 1 THEN likeQueue[t] ELSE @]
  /\ UNCHANGED <<backendVars, user, loading, error, imagesWithCaptions, selectedImage,
                 userVotes, voteCounts, envVars, authPc, fetchPc, fetched, calls, ncalls,
                 selects, queryFailed, toggle, hist, mutations>>

\* onClick={() => setSelectedImage(image)} / setSelectedImage(null)
SelectImage(t, i) ==
  /\ View(t) = "gallery"
  /\ i \in 1..Len(imagesWithCaptions[t])
  /\ selectedImage[t] # <<imagesWithCaptions[t][i]>>
  /\ selectedImage' = [selectedImage EXCEPT ![t] = <<imagesWithCaptions[t][i]>>]
  /\ UNCHANGED <<backendVars, user, loading, error, imagesWithCaptions, likedCaptions,
                 userVotes, voteCounts, envVars, pcVars, histVars>>

CloseModal(t) ==
  /\ View(t) = "gallery"
  /\ selectedImage[t] # <<>>
  /\ selectedImage' = [selectedImage EXCEPT ![t] = <<>>]
  /\ UNCHANGED <<backendVars, user, loading, error, imagesWithCaptions, likedCaptions,
                 userVotes, voteCounts, envVars, pcVars, histVars>>

\* ------------------------------------------------------------ specifications
Failures == {"error", "throw"}

\* the user waits for a vote to come back before casting the next one
HandleVoteIdle(t, c, v) == calls[t] = <<>> /\ HandleVote(t, c, v)

VoteTab(t) ==
  \/ \E u \in {Null, Me} : CheckAuth(t, u)
  \/ \E ok \in BOOLEAN : FetchImages(t, ok)
  \/ \E ok \in BOOLEAN : FetchCaptionsVote(t, ok)
  \/ \E ok \in BOOLEAN : FetchAllVotes(t, ok)
  \/ \E ok \in BOOLEAN : FetchUserVotes(t, ok)
  \/ \E c \in CaptionIds, v \in Vals : HandleVote(t, c, v)
  \/ \E i \in 1..MaxCalls : Backend(t, i)
  \/ \E i \in 1..MaxCalls : Complete(t, i)
  \/ \E i \in 1..MaxCalls, how \in Failures : Fail(t, i, how)
  \/ DismissAlert(t)

\* the user clicks a like button once the previous click has been rendered
ToggleLikeIdle(t, c) == likeQueue[t] = <<>> /\ ToggleLike(t, c)

LikeTab(t) ==
  \/ \E u \in {Null, Me} : CheckAuth(t, u)
  \/ \E ok \in BOOLEAN : FetchImages(t, ok)
  \/ \E ok \in BOOLEAN : FetchCaptionsLike(t, ok)
  \/ \E c \in CaptionIds : ToggleLikeIdle(t, c)
  \/ Render(t)
  \/ \E i \in 1..MaxImages : SelectImage(t, i)
  \/ CloseModal(t)

\* the like variant with clicks that may come faster than renders
QuickLikeTab(t) ==
  \/ CheckAuth(t, Me)
  \/ FetchImages(t, TRUE)
  \/ FetchCaptionsLike(t, TRUE)
  \/ \E c \in CaptionIds : ToggleLike(t, c)
  \/ Render(t)
  \/ \E i \in 1..MaxImages : SelectImage(t, i)
  \/ CloseModal(t)

\* the vote variant with each vote cast after the previous one came back
SeqTab(t) ==
  \/ \E u \in {Null, Me} : CheckAuth(t, u)
  \/ \E ok \in BOOLEAN : FetchImages(t, ok)
  \/ \E ok \in BOOLEAN : FetchCaptionsVote(t, ok)
  \/ \E ok \in BOOLEAN : FetchAllVotes(t, ok)
  \/ \E ok \in BOOLEAN : FetchUserVotes(t, ok)
  \/ \E c \in CaptionIds, v \in Vals : HandleVoteIdle(t, c, v)
  \/ \E i \in 1..MaxCalls : Backend(t, i)
  \/ \E i \in 1..MaxCalls : Complete(t, i)
  \/ \E i \in 1..MaxCalls, how \in Failures : Fail(t, i, how)
  \/ DismissAlert(t)

\* one tab running the vote variant
Next == \E t \in OneTab : VoteTab(t)
Spec == Init /\ [][Next]_vars

\* two tabs of the same user running the vote variant against a backend
\* that answers every request without error; in each tab the user waits for
\* a vote to come back before casting the next one
PatientTab(t) ==
  \/ CheckAuth(t, Me)
  \/ FetchImages(t, TRUE)
  \/ FetchCaptionsVote(t, TRUE)
  \/ FetchAllVotes(t, TRUE)
  \/ FetchUserVotes(t, TRUE)
  \/ \E c \in CaptionIds, v \in Vals : HandleVoteIdle(t, c, v)
  \/ \E i \in 1..MaxCalls : Backend(t, i)
  \/ \E i \in 1..MaxCalls : Complete(t, i)

NextTabs == \E t \in Tabs : PatientTab(t)
SpecTabs == InitTabs /\ [][NextTabs]_vars

\* one tab running the like variant
NextLike == \E t \in OneTab : LikeTab(t)
SpecLike == InitLike /\ [][NextLike]_vars

\* one tab running the like variant over a fixed gallery, quick clicks
NextQuick == \E t \in OneTab : QuickLikeTab(t)
SpecQuick == InitQuick /\ [][NextQuick]_vars

\* one tab running the vote variant, one vote at a time
NextSeq == \E t \in OneTab : SeqTab(t)
SpecSeq == Init /\ [][NextSeq]_vars

\* every awaited query settles, with data or with an error
QueriesSettle(t) ==
  /\ WF_vars(\E ok \in BOOLEAN : FetchImages(t, ok))
  /\ WF_vars(\E ok \in BOOLEAN : FetchCaptionsVote(t, ok))
  /\ WF_vars(\E ok \in BOOLEAN : FetchAllVotes(t, ok))
  /\ WF_vars(\E ok \in BOOLEAN : FetchUserVotes(t, ok))

SpecLive == SpecSeq /\ \A t \in OneTab : QueriesSettle(t)

\* ------------------------------------------------------------ properties
TabA == "tabA"
TabB == "tabB"

Settled(t) == fetchPc[t] = "done" /\ calls[t] = <<>>

\* a handleVote call of tab t came back in this step
Returned(t) == Len(hist'[t].done) = Len(hist[t].done) + 1
ReturnedOk(t) == Returned(t) /\ hist'[t].done[Len(hist'[t].done)].ok
ReturnedFailed(t) == Returned(t) /\ ~hist'[t].done[Len(hist'[t].done)].ok

\* C1: the caption_votes table never holds more than one row for a
\* (profile_id, caption_id) pair, whatever handleVote calls one tab makes
\* (stated for a tab whose fetchData queries all succeeded).
C1_AtMostOneVotePerPair ==
  queryFailed[TabA] = {} =>
    \A c \in CaptionIds, p \in Profiles : RowCount(caption_votes, c, p) <= 1

\* C2: after two successful handleVote(c, v) calls with the same v on a
\* caption the user had not voted on, the second made after the first came
\* back, the caption is unvoted again, its displayed count is the one from
\* before the first call, and the backend holds no row of the user for it.
C2_ToggleTwiceRestores ==
  \A t \in OneTab :
    toggle[t].stage = "done" =>
      /\ toggle[t].cap \notin DOMAIN userVotes[t]
      /\ getVoteCount(voteCounts[t], toggle[t].cap) = toggle[t].count
      /\ RowCount(caption_votes, toggle[t].cap, Me) = 0

\* a double vote on a caption with a non-zero count has completed
C2_Witness ==
  /\ toggle[TabA].stage = "done"
  /\ toggle[TabA].count # 0
  /\ calls[TabA] = <<>>

\* C3: once the tab's fetch succeeded and all its handleVote calls have come
\* back, userVotes[c] is the vote_value of the user's row for c, and c is
\* absent from userVotes exactly when the user has no row for c.
C3_UIReflectsLastWrite ==
  \A t \in OneTab :
    (Settled(t) /\ queryFailed[t] = {} /\ alert[t] = "none") =>
      \A c \in CaptionIds :
        /\ c \in DOMAIN userVotes[t] <=> RowCount(caption_votes, c, Me) > 0
        /\ c \in DOMAIN userVotes[t] =>
             /\ caption_votes[<<c, Me, userVotes[t][c]>>] > 0
             /\ caption_votes[<<c, Me, -userVotes[t][c]>>] = 0

\* the call of tab t that comes back in this step ran alone: it began the
\* burst and no other call was made or came back during it
RanAlone(t) == hist[t].done = <<>> /\ Len(calls[t]) = 1

FailureAlerts == {"remove", "update", "insert", "unexpected"}

\* C4: when a handleVote request fails, the step in which the call comes
\* back shows an alert and leaves userVotes and voteCounts as they are; for a
\* call that ran alone these are the maps from before the call was made.
C4_FailedVoteKeepsMaps ==
  [][\A t \in OneTab :
       ReturnedFailed(t) =>
         /\ alert'[t] \in FailureAlerts
         /\ userVotes'[t] = userVotes[t]
         /\ voteCounts'[t] = voteCounts[t]
         /\ RanAlone(t) => (userVotes'[t] = hist[t].votes /\ voteCounts'[t] = hist[t].counts)]_vars

\* a failed vote on a caption with a vote and a count has come back
C4_Witness ==
  /\ alert[TabA] \in FailureAlerts
  /\ hist[TabA].done # <<>>
  /\ ~hist[TabA].done[Len(hist[TabA].done)].ok
  /\ userVotes[TabA] # EmptyMap
  /\ voteCounts[TabA] # EmptyMap

\* C5: in the step in which a backend call is seen to fail (a select query
\* of fetchData, or the delete, update or insert of handleVote), an alert is
\* shown or the inline error string is set.
C5_FailuresSurfaced ==
  [][\A t \in OneTab :
       (queryFailed'[t] # queryFailed[t] \/ ReturnedFailed(t)) =>
         (alert'[t] # "none" \/ error'[t] # Null)]_vars

\* handleVote as it runs when nothing else is in flight: branch, request,
\* map updates, all on the maps m
SerialApply(m, inv) ==
  IF inv.ok
  THEN LET kind == Branch(m.votes, inv.cap, inv.val)
       IN  [votes |-> NewVotes(kind, m.votes, inv.cap, inv.val),
            counts |-> NewCounts(kind, m.votes, m.counts, inv.cap, inv.val)]
  ELSE m

RECURSIVE SerialRun(_, _, _, _)
SerialRun(m, done, order, n) ==
  IF n = 0 THEN m ELSE SerialApply(SerialRun(m, done, order, n - 1), done[order[n]])

\* C6: when all handleVote calls of a burst have come back, userVotes and
\* voteCounts are what running the same calls, with the same outcomes, one
\* after another in some order would have produced from the maps the burst
\* began with (stated for a tab whose fetchData queries all succeeded).
C6_NoLostUpdate ==
  \A t \in OneTab :
    (calls[t] = <<>> /\ hist[t].done # <<>> /\ queryFailed[t] = {}) =>
      \E order \in Permutations(1..Len(hist[t].done)) :
        SerialRun([votes |-> hist[t].votes, counts |-> hist[t].counts],
                  hist[t].done, order, Len(hist[t].done))
          = [votes |-> userVotes[t], counts |-> voteCounts[t]]

\* C7: once getUser() has resolved with no user the router is at /login, and
\* while user is null the tab shows the loading view: no gallery, no modal,
\* no vote or like control, and none has been used.
C7_AuthGate ==
  \A t \in OneTab :
    /\ (authPc[t] = "done" /\ user[t] = Null) => route[t] = LoginRoute
    /\ user[t] = Null =>
         /\ View(t) = "loading"
         /\ RenderedCaptions(t) = {}
         /\ selectedImage[t] = <<>>
         /\ likedCaptions[t] = {}
         /\ selects[t] = [q \in QueryNames |-> 0]

\* getUser() has resolved with no user
C7_Witness == authPc[TabA] = "done" /\ user[TabA] = Null /\ route[TabA] = LoginRoute

\* C8: with a backend that answers every request without error, no tab ever
\* shows an alert or an error, whatever the two tabs do to the same vote row
\* (the state the claim speaks of is C8_Witness).
C8_RaceUndetected ==
  \A t \in Tabs : alert[t] = "none" /\ error[t] = Null

\* both tabs have voted on caption 1, every call has come back, and
\* caption_votes holds two rows of the user for it, with different values,
\* so that a tab shows a vote that is not the one in its row
C8_Witness ==
  /\ \A t \in Tabs : Settled(t) /\ hist[t].done # <<>> /\ alert[t] = "none" /\ error[t] = Null
  /\ caption_votes[<<1, Me, 1>>] > 0
  /\ caption_votes[<<1, Me, -1>>] > 0
  /\ 1 \in DOMAIN userVotes[TabA]
  /\ 1 \in DOMAIN userVotes[TabB]
  /\ userVotes[TabA][1] # userVotes[TabB][1]

\* C9: the card of an image with n captions previews its first min(n, 3)
\* captions.
C9_PreviewShowsThree ==
  \A t \in OneTab :
    \A i \in 1..Len(imagesWithCaptions[t]) :
      LET caps == imagesWithCaptions[t][i].captions
      IN  Preview(caps) = SubSeq(caps, 1, Min(Len(caps), DocPreviewCount))

\* C10: handleVote(c, v) issues exactly one request, chosen by the cached
\* vote userVotes[c]: a delete if it equals v, an update if it is another
\* value, an insert if there is none; when the request succeeds, c is
\* removed from userVotes and its count goes down by v (delete), or
\* userVotes[c] = v and its count changes by v minus the old vote (update)
\* or goes up by v (insert), counted from the maps at the time of the call.
C10_ThreeWayBranch ==
  [][\A t \in OneTab :
       /\ ncalls'[t] # ncalls[t] =>
            /\ Len(calls'[t]) = Len(calls[t]) + 1
            /\ SubSeq(calls'[t], 1, Len(calls[t])) = calls[t]
            /\ LET r == calls'[t][Len(calls'[t])]
                   c == r.cap
               IN  /\ r.profile = user[t]
                   /\ r.resp = "pending"
                   /\ r.kind = IF c \notin DOMAIN userVotes[t] THEN "insert"
                               ELSE IF userVotes[t][c] = r.val THEN "delete"
                               ELSE "update"
            /\ userVotes'[t] = userVotes[t]
            /\ voteCounts'[t] = voteCounts[t]
       /\ ReturnedOk(t) =>
            \E i \in 1..Len(calls[t]) :
              LET r == calls[t][i]
                  c == r.cap
                  before == getVoteCount(r.counts, c)
                  after == getVoteCount(voteCounts'[t], c)
              IN  /\ calls'[t] = RemoveAt(calls[t], i)
                  /\ r.resp = "ok"
                  /\ r.kind = "delete" =>
                       (c \notin DOMAIN userVotes'[t] /\ after = before - r.val)
                  /\ r.kind = "update" =>
                       /\ c \in DOMAIN userVotes'[t]
                       /\ userVotes'[t][c] = r.val
                       /\ after = before + r.val - r.votes[c]
                  /\ r.kind = "insert" =>
                       /\ c \in DOMAIN userVotes'[t]
                       /\ userVotes'[t][c] = r.val
                       /\ after = before + r.val]_vars

\* a vote of +1 on caption 1 has been changed to -1, alone, and the count
\* went down by two
C10_Witness ==
  /\ calls[TabA] = <<>>
  /\ Len(hist[TabA].done) = 1
  /\ hist[TabA].done[1].ok
  /\ 1 \in DOMAIN hist[TabA].votes
  /\ hist[TabA].votes[1] = 1
  /\ 1 \in DOMAIN userVotes[TabA]
  /\ userVotes[TabA][1] = -1
  /\ getVoteCount(voteCounts[TabA], 1) = getVoteCount(hist[TabA].counts, 1) - 2

\* C11: nothing is retried: a tab has sent at most one delete, update or
\* insert request per handleVote invocation, and its fetchData run has issued
\* each select query at most once, whether the requests succeeded or failed.
C11_NothingRetried ==
  \A t \in OneTab :
    /\ mutations[t] <= ncalls[t]
    /\ \A q \in QueryNames : selects[t][q] <= 1

\* after a fetch with a failed query, two votes were cast and have come
\* back, the last one failed, and two requests were sent in all
C11_Witness ==
  /\ fetchPc[TabA] = "done"
  /\ queryFailed[TabA] # {}
  /\ calls[TabA] = <<>>
  /\ hist[TabA].done # <<>>
  /\ ~hist[TabA].done[Len(hist[TabA].done)].ok
  /\ ncalls[TabA] = 2
  /\ mutations[TabA] = 2

\* the select queries tab t has issued
IssuedQueries(t) == {q \in QueryNames : selects[t][q] > 0}

IssuedCount(t) ==
  selects[t]["images"] + selects[t]["captions"] + selects[t]["allVotes"]
    + selects[t]["userVotes"]

\* C12 as stated: a finished run of fetchData has issued exactly three
\* select queries, whichever of them failed.
C12_ThreeIndependentQueries ==
  \A t \in OneTab : fetchPc[t] = "done" => IssuedCount(t) = 3

\* C12 as amended: a finished run of fetchData has issued its queries in
\* sequence, each once: the images query alone if it failed; the images and
\* captions queries if the captions query failed; otherwise all four (images,
\* captions, all caption_votes rows, the user's caption_votes rows), whether
\* or not a caption_votes query failed.
C12_QueriesInSequence ==
  \A t \in OneTab :
    fetchPc[t] = "done" =>
      /\ \A q \in QueryNames : selects[t][q] <= 1
      /\ IssuedQueries(t) =
           IF "images" \in queryFailed[t] THEN {"images"}
           ELSE IF "captions" \in queryFailed[t] THEN {"images", "captions"}
           ELSE QueryNames

\* a run in which the all-votes query failed and the user-votes query was
\* still issued has finished
C12_Witness ==
  /\ fetchPc[TabA] = "done"
  /\ queryFailed[TabA] = {"allVotes"}
  /\ selects[TabA]["userVotes"] = 1
  /\ error[TabA] = Null

\* the elements of a sequence
Range(s) == {s[i] : i \in 1..Len(s)}

\* C13: after a successful fetch, imagesWithCaptions holds exactly the
\* fetched images, each once; each image's captions are exactly the rows of
\* the captions table with its image_id, in table order; a caption whose
\* image_id matches no fetched image is in no list; and the images are in
\* order of non-increasing caption count.
C13_CaptionGrouping ==
  \A t \in OneTab :
    (fetchPc[t] = "done" /\ queryFailed[t] = {}) =>
      LET shown == imagesWithCaptions[t]
          got == SelectImages(images)
      IN  /\ Len(shown) = Len(got)
          /\ \A k \in 1..Len(got) :
               Cardinality({i \in 1..Len(shown) : shown[i].id = got[k]}) = 1
          /\ \A i \in 1..Len(shown) :
               LET caps == shown[i].captions
               IN  /\ Range(caps) = {cp \in Range(captions) : cp.image_id = shown[i].id}
                   /\ \A a, b \in 1..Len(caps) : a < b => caps[a].id < caps[b].id
          /\ \A cp \in Range(captions) :
               cp.image_id \notin Range(got) =>
                 \A i \in 1..Len(shown) : cp \notin Range(shown[i].captions)
          /\ \A i, j \in 1..Len(shown) :
               i < j => Len(shown[i].captions) >= Len(shown[j].captions)

\* a fetch has succeeded where the sort moved the second image of the table
\* in front of the first, and one caption belongs to no fetched image
C13_Witness ==
  /\ fetchPc[TabA] = "done"
  /\ queryFailed[TabA] = {}
  /\ images = <<1, 2>>
  /\ Len(imagesWithCaptions[TabA]) = 2
  /\ imagesWithCaptions[TabA][1].id = 2
  /\ Len(imagesWithCaptions[TabA][1].captions) = 2
  /\ \E cp \in Range(captions) : cp.image_id = OrphanImage

\* the rows a votes query of tab t handed to fetchData: the table's rows if
\* the query was issued and answered without error, none otherwise
RowsFetched(t, q) ==
  IF selects[t][q] > 0 /\ q \notin queryFailed[t] THEN caption_votes ELSE NoVotes

\* upvote rows minus downvote rows of caption c
VoteTotal(tbl, c) ==
  (tbl[<<c, Me, 1>>] + tbl[<<c, Other, 1>>]) - (tbl[<<c, Me, -1>>] + tbl[<<c, Other, -1>>])

\* C14: after fetchData and before any vote is cast, for every caption c
\* getVoteCount(c) is the sum of vote_value over the fetched caption_votes
\* rows of c, with no entry in voteCounts (hence 0) for a caption without
\* rows, and userVotes[c] is the vote_value of the user's fetched row for c,
\* with no entry where the user has no row.
C14_VoteSummation ==
  \A t \in OneTab :
    (fetchPc[t] = "done" /\ mutations[t] = 0) =>
      LET all == RowsFetched(t, "allVotes")
          own == RowsFetched(t, "userVotes")
      IN  \A c \in CaptionIds :
            /\ getVoteCount(voteCounts[t], c) = VoteTotal(all, c)
            /\ c \in DOMAIN voteCounts[t] <=> \E r \in RowsOfCaption(c) : all[r] > 0
            /\ c \in DOMAIN userVotes[t] <=> RowCount(own, c, Me) > 0
            /\ c \in DOMAIN userVotes[t] => own[<<c, Me, userVotes[t][c]>>] > 0

\* a fetch has succeeded for a user whose downvote on caption 1 cancels
\* another user's upvote: the caption shows 0 and the user's vote is -1
C14_Witness ==
  /\ fetchPc[TabA] = "done"
  /\ queryFailed[TabA] = {}
  /\ mutations[TabA] = 0
  /\ caption_votes[<<1, Me, -1>>] = 1
  /\ caption_votes[<<1, Other, 1>>] = 1
  /\ 1 \in DOMAIN voteCounts[TabA]
  /\ voteCounts[TabA][1] = 0
  /\ 1 \in DOMAIN userVotes[TabA]
  /\ userVotes[TabA][1] = -1

\* C15: in a tab whose all-votes query succeeded (so that voteCounts matched
\* the table after fetchData, C14), whenever no handleVote call is in flight,
\* the votes having been cast one after another and no other client writing,
\* getVoteCount(c) is the sum of vote_value over the caption_votes rows of c,
\* for every caption c.
C15_TotalsConsistent ==
  \A t \in OneTab :
    (Settled(t) /\ selects[t]["allVotes"] > 0 /\ "allVotes" \notin queryFailed[t]) =>
      \A c \in CaptionIds :
        getVoteCount(voteCounts[t], c) = VoteTotal(caption_votes, c)

\* how often caption c occurs among the queued updaters
Occurrences(queue, c) == Cardinality({i \in 1..Len(queue) : queue[i] = c})

\* C16: a toggleLike(c) step queues one updater and changes neither
\* likedCaptions nor the backend, and no request is sent; the render that
\* applies the queued updaters flips the membership of exactly the captions
\* toggled an odd number of times (one toggle flips c, two toggles of c
\* restore it, every other caption keeps its membership); likedCaptions
\* changes in no other step.
C16_ToggleFlips ==
  [][\A t \in OneTab :
       /\ Len(likeQueue'[t]) > Len(likeQueue[t]) =>
            /\ \E c \in CaptionIds : likeQueue'[t] = Append(likeQueue[t], c)
            /\ likedCaptions'[t] = likedCaptions[t]
       /\ (likeQueue[t] # <<>> /\ likeQueue'[t] = <<>>) =>
            \A c \in CaptionIds :
              (c \in likedCaptions'[t] <=> c \notin likedCaptions[t])
                <=> Occurrences(likeQueue[t], c) % 2 = 1
       /\ likedCaptions'[t] # likedCaptions[t] =>
            (likeQueue[t] # <<>> /\ likeQueue'[t] = <<>>)
       /\ likeQueue'[t] # likeQueue[t] =>
            /\ backendVars' = backendVars
            /\ selects' = selects
            /\ mutations' = mutations]_vars

\* with caption 2 liked, caption 1 was toggled twice before the next render:
\* after it caption 2 is still liked and caption 1 is not
C16_Witness ==
  /\ likeBatch[TabA] = <<1, 1>>
  /\ likeQueue[TabA] = <<>>
  /\ likedCaptions[TabA] = {2}

C18_LoadingEnds ==
  /\ [](\A t \in OneTab : user[t] = Null => loading[t])
  /\ \A t \in OneTab : (user[t] # Null) ~> (~loading[t])

\* a fetchData run with a failed query has ended and the loading view is left
C18_Witness ==
  /\ user[TabA] # Null
  /\ ~loading[TabA]
  /\ "images" \in queryFailed[TabA]
  /\ View(TabA) # "loading"

\* C19: every step in which a tab issues a select query, sends a delete,
\* update or insert request, or has a request applied to caption_votes is
\* taken with its user non-null; while user is null nothing has been issued.
C19_NoRequestBeforeAuth ==
  [][\A t \in OneTab :
       /\ (selects'[t] # selects[t] \/ mutations'[t] # mutations[t]
             \/ caption_votes' # caption_votes) => user[t] # Null
       /\ user'[t] = Null =>
            /\ selects'[t] = [q \in QueryNames |-> 0]
            /\ mutations'[t] = 0
            /\ calls'[t] = <<>>]_vars

\* an authenticated tab has issued its four queries and sent a vote request
C19_Witness ==
  /\ user[TabA] = Me
  /\ IssuedQueries(TabA) = QueryNames
  /\ mutations[TabA] > 0
  /\ calls[TabA] # <<>>
====
